---- MODULE Spec2Model ----
(***************************************************************************)
(* Model of the text utilities of the Jarvis assistant:                    *)
(*   - JarvisTTS._chunk_text     (Jarvis/Text_SpeechToPython)              *)
(*   - normalize_pronounced_punctuation (SpeechToText_Python)              *)
(*   - openweb / get_candidates / normalize_word (Jarvis/Web_Open)         *)
(*   - the loops of Speech_To_Text_Python and of main (Jarvis/Web_Open)    *)
(* A Python str is a sequence of one-character strings.                    *)
(***************************************************************************)
EXTENDS Integers, Sequences, FiniteSets, TLC

VARIABLES
    tts_text,          \* _chunk_text: the text argument
    max_chunk_len,     \* JarvisTTS.max_chunk_len
    chunks,            \* _chunk_text: the returned list
    tts_pc,            \* "idle" | "call" | "returned" | "spoken" | "empty"
    spoken,            \* normalize_pronounced_punctuation: the text argument
    phrase_case,       \* how the spoken text was put together
    normalized,        \* normalize_pronounced_punctuation: the returned string
    norm_pc,           \* "idle" | "heard" | "normalized"
    cand_name,         \* get_candidates: the name argument
    scores,            \* get_candidates: the returned list
    cand_pc,           \* "idle" | "call" | "returned"
    web_text,          \* openweb: the utterance
    words,             \* openweb: text.split()
    normalized_words,  \* openweb: the normalized tokens
    idx,               \* openweb: position of the loop over the tokens
    urls_to_open,      \* openweb: the URLs selected so far, in order
    opened_urls,       \* openweb: the same URLs as a set
    candidates,        \* openweb: the candidates listed at the prompt
    trace,             \* what happened to each token handled so far
    launched,          \* the URLs passed to webbrowser.open
    log_calls,         \* the calls of log_to_file
    file,              \* input.txt: the records appended
    pc,                \* "idle" | "confirm" | "choose" | "done" | "raised"
    token,             \* normalize_word: the word argument
    word_out,          \* normalize_word: the returned string
    word_pc,           \* "idle" | "call" | "returned"
    stt_pc,            \* Speech_To_Text_Python: where the function is
    miss_streak,       \* Speech_To_Text_Python: miss_streak
    last_written,      \* Speech_To_Text_Python: last_written
    dynamic_energy_ratio, \* recognizer.dynamic_energy_ratio, in tenths
    output_file,       \* SpeechToText_Python/input.txt: the texts appended
    appends,           \* the calls of append_to_input_file, by their text
    stt_turns,         \* turns of the speech loop so far
    stt_event,         \* what happened in the last turn of the speech loop
    main_pc,           \* main of Web_Open: where the function is
    main_turns         \* turns of the prompt loop so far

chunkVars == <<tts_text, max_chunk_len, chunks, tts_pc>>
normVars == <<spoken, phrase_case, normalized, norm_pc>>
candVars == <<cand_name, scores, cand_pc>>
webVars == <<web_text, words, normalized_words, idx, urls_to_open, opened_urls,
             candidates, trace, launched, log_calls, file, pc>>
wordVars == <<token, word_out, word_pc>>
sttVars == <<stt_pc, miss_streak, last_written, dynamic_energy_ratio, output_file,
             appends, stt_turns, stt_event>>
mainVars == <<main_pc, main_turns>>
vars == <<chunkVars, normVars, candVars, webVars, wordVars, sttVars, mainVars>>

(***************************************************************************)
(* Bounds of the model.                                                    *)
(***************************************************************************)
MaxTextLen == 5
MaxChunkLen == 4
MaxNameLen == 4
MaxWords == 2
MaxSuffixes == 2
MaxTurns == 5
MaxWrites == 2
MaxCalls == 2

(***************************************************************************)
(* Python str primitives.                                                  *)
(***************************************************************************)
\* The characters str.strip(), str.split() and the regex class \s remove.
Whitespace == {" ", "\t", "\n"}

RECURSIVE LStrip(_)
LStrip(s) ==
    IF s # <<>> /\ Head(s) \in Whitespace THEN LStrip(Tail(s)) ELSE s

RECURSIVE RStrip(_)
RStrip(s) ==
    IF s # <<>> /\ s[Len(s)] \in Whitespace
    THEN RStrip(SubSeq(s, 1, Len(s) - 1))
    ELSE s

\* str.strip()
Strip(s) == LStrip(RStrip(s))

\* str.replace(old, new) for a one-character old and new
ReplaceChar(s, old, new) ==
    [i \in 1..Len(s) |-> IF s[i] = old THEN new ELSE s[i]]

\* str.split(sep) for a one-character sep: k separators give k+1 pieces
RECURSIVE SplitAcc(_, _, _, _)
SplitAcc(s, sep, piece, acc) ==
    IF s = <<>> THEN Append(acc, piece)
    ELSE IF Head(s) = sep
         THEN SplitAcc(Tail(s), sep, <<>>, Append(acc, piece))
         ELSE SplitAcc(Tail(s), sep, Append(piece, Head(s)), acc)

SplitSep(s, sep) == SplitAcc(s, sep, <<>>, <<>>)

\* sep.join(list)
RECURSIVE Join(_, _)
Join(sep, list) ==
    IF list = <<>> THEN <<>>
    ELSE IF Len(list) = 1 THEN list[1]
    ELSE list[1] \o sep \o Join(sep, Tail(list))

(***************************************************************************)
(* JarvisTTS._chunk_text                                                   *)
(***************************************************************************)
\* text = text.strip()
TrimTextPunct(text) ==
    Strip(ReplaceChar(ReplaceChar(ReplaceChar(text, ".", " "), "?", " "), "!", " "))

TrimText(text) == Strip(text)

\* text.replace("?", ".").replace("!", ".").split(".")
SplitSentences(text) ==
    SplitSep(ReplaceChar(ReplaceChar(text, "?", "."), "!", "."), ".")

\* candidate = (". ".join(current + [sentence])).strip()
Candidate(current, sentence) == Strip(Join(<<"."," ">>, Append(current, sentence)))

\* ". ".join(current) + "."
Seal(current) == Join(<<"."," ">>, current) \o <<".">>

\* if current: chunks.append(". ".join(current) + ".")
FlushCurrent(current, sealed) ==
    IF current # <<>> THEN Append(sealed, Seal(current)) ELSE sealed

\* current = [sentence]: the sentence that did not fit opens the next chunk
RestartDropped(sentence) == <<>>

Restart(sentence) == <<sentence>>

\* the for loop over the sentences, and the flush after it
RECURSIVE ChunkLoop(_, _, _, _)
ChunkLoop(sentences, max_len, current, sealed) ==
    IF sentences = <<>> THEN FlushCurrent(current, sealed)
    ELSE LET sentence == Strip(Head(sentences))
             rest == Tail(sentences)
         IN  IF sentence = <<>> THEN ChunkLoop(rest, max_len, current, sealed)
             ELSE IF Len(Candidate(current, sentence)) <= max_len
                  THEN ChunkLoop(rest, max_len, Append(current, sentence), sealed)
                  ELSE ChunkLoop(rest, max_len, Restart(sentence),
                                 FlushCurrent(current, sealed))

_chunk_text(text, max_len) ==
    LET t == TrimText(text)
    IN  IF Len(t) <= max_len THEN <<t>>
        ELSE ChunkLoop(SplitSentences(t), max_len, <<>>, <<>>)

\* speak: if not text or not text.strip()
IsBlank(text) == Strip(text) = <<>>

(***************************************************************************)
(* Regular expressions of the normalizer (re.compile(..., re.I), re.sub).  *)
(* A pattern is a sequence of lower-case literal characters and the        *)
(* quantified classes WsPlus, \s+, and WsStar, \s* ; every rule is          *)
(* \b(alt1|alt2|...)\b with a literal replacement.                         *)
(***************************************************************************)
LowerCase == <<"a","b","c","d","e","f","g","h","i","j","k","l","m","n","o","p","q","r","s","t","u","v","w","x","y","z">>
UpperCase == <<"A","B","C","D","E","F","G","H","I","J","K","L","M","N","O","P","Q","R","S","T","U","V","W","X","Y","Z">>
Digits == {"0", "1", "2", "3", "4", "5", "6", "7", "8", "9"}

Range(s) == {s[i] : i \in DOMAIN s}

\* str.lower(), and the case folding of re.I
LowerChar(c) ==
    IF c \in Range(UpperCase)
    THEN LowerCase[CHOOSE i \in DOMAIN UpperCase : UpperCase[i] = c]
    ELSE c

Lower(s) == [i \in DOMAIN s |-> LowerChar(s[i])]

\* the regex class \w
WordChars == Range(LowerCase) \cup Range(UpperCase) \cup Digits \cup {"_"}

IsWordAt(s, p) == p \in DOMAIN s /\ s[p] \in WordChars

\* \b at the gap before position p
Boundary(s, p) == IsWordAt(s, p - 1) # IsWordAt(s, p)

WsPlus == "\\s+"
WsStar == "\\s*"

\* the first position >= p that holds no whitespace as a greedy \s* does
RECURSIVE SkipWs(_, _)
SkipWs(s, p) ==
    IF p \in DOMAIN s /\ s[p] \in Whitespace THEN SkipWs(s, p + 1) ELSE p

\* match of a pattern at position p: the position after the match, 0 if none
RECURSIVE MatchFrom(_, _, _)
MatchFrom(s, p, pat) ==
    IF pat = <<>> THEN p
    ELSE IF Head(pat) = WsPlus
         THEN IF SkipWs(s, p) > p THEN MatchFrom(s, SkipWs(s, p), Tail(pat)) ELSE 0
    ELSE IF Head(pat) = WsStar
         THEN MatchFrom(s, SkipWs(s, p), Tail(pat))
    ELSE IF p \in DOMAIN s /\ LowerChar(s[p]) = Head(pat)
         THEN MatchFrom(s, p + 1, Tail(pat))
         ELSE 0

\* (alt1|alt2|...)\b : the alternatives are tried in the order written and
\* the first one that matches up to a word boundary wins
RECURSIVE MatchAlts(_, _, _)
MatchAlts(s, p, alts) ==
    IF alts = <<>> THEN 0
    ELSE LET e == MatchFrom(s, p, Head(alts))
         IN  IF e > 0 /\ Boundary(s, e) THEN e ELSE MatchAlts(s, p, Tail(alts))

\* \b(alt1|alt2|...)\b at position p
MatchRule(s, p, alts) == IF Boundary(s, p) THEN MatchAlts(s, p, alts) ELSE 0

\* pattern.sub(repl, s): leftmost non-overlapping matches, left to right
RECURSIVE SubFrom(_, _, _, _)
SubFrom(s, p, alts, repl) ==
    IF p > Len(s) THEN <<>>
    ELSE LET e == MatchRule(s, p, alts)
         IN  IF e > 0 THEN repl \o SubFrom(s, e, alts, repl)
             ELSE <<s[p]>> \o SubFrom(s, p + 1, alts, repl)

Sub(rule, s) == SubFrom(s, 1, rule.alts, rule.repl)

\* for pattern, repl in rules: normalized = pattern.sub(repl, normalized)
RECURSIVE ApplyRules(_, _)
ApplyRules(rules, s) ==
    IF rules = <<>> THEN s
    ELSE LET next == Sub(Head(rules), s)
         IN  IF Len(next) >= 0 THEN ApplyRules(Tail(rules), next) ELSE next

\* re.sub(r"\s*([class])\s*", pre + r"\1" + post, s); with trailing = FALSE
\* the pattern is r"\s*([class])"
RECURSIVE SubSymFrom(_, _, _, _, _, _)
SubSymFrom(s, p, class, pre, post, trailing) ==
    IF p > Len(s) THEN <<>>
    ELSE LET q == SkipWs(s, p)
         IN  IF q \in DOMAIN s /\ s[q] \in class
             THEN pre \o <<s[q]>> \o post \o
                  SubSymFrom(s, IF trailing THEN SkipWs(s, q + 1) ELSE q + 1,
                             class, pre, post, trailing)
             ELSE <<s[p]>> \o SubSymFrom(s, p + 1, class, pre, post, trailing)

SubSym(s, class, pre, post, trailing) == SubSymFrom(s, 1, class, pre, post, trailing)

\* re.sub(r"[class]+", " ", s)
RECURSIVE SkipClass(_, _, _)
SkipClass(s, p, class) ==
    IF p \in DOMAIN s /\ s[p] \in class THEN SkipClass(s, p + 1, class) ELSE p

RECURSIVE CollapseFrom(_, _, _)
CollapseFrom(s, p, class) ==
    IF p > Len(s) THEN <<>>
    ELSE IF s[p] \in class
         THEN <<" ">> \o CollapseFrom(s, SkipClass(s, p, class), class)
         ELSE <<s[p]>> \o CollapseFrom(s, p + 1, class)

Collapse(s, class) == CollapseFrom(s, 1, class)

(***************************************************************************)
(* normalize_pronounced_punctuation                                        *)
(***************************************************************************)
_PUNCT_PATTERNS == <<
    [alts |-> <<<<"h","a","s","h">>, <<"p","o","u","n","d">>, <<"n","u","m","b","e","r"," ","s","i","g","n">>>>, repl |-> <<"#">>],
    [alts |-> <<<<"d","o","l","l","a","r">>, <<"d","o","l","l","a","r"," ","s","i","g","n">>>>, repl |-> <<"$">>],
    [alts |-> <<<<"a","m","p","e","r","s","a","n","d">>, <<"a","n","d"," ","s","i","g","n">>>>, repl |-> <<"&">>],
    [alts |-> <<<<"d","o","t">>, <<"p","e","r","i","o","d">>, <<"f","u","l","l"," ","s","t","o","p">>>>, repl |-> <<".">>],
    [alts |-> <<<<"c","o","m","m","a">>>>, repl |-> <<",">>],
    [alts |-> <<<<"s","e","m","i","c","o","l","o","n">>>>, repl |-> <<";">>],
    [alts |-> <<<<"c","o","l","o","n">>>>, repl |-> <<":">>],
    [alts |-> <<<<"u","n","d","e","r","s","c","o","r","e">>, <<"u","n","d","e","r"," ","s","c","o","r","e">>>>, repl |-> <<"_">>],
    [alts |-> <<<<"d","a","s","h">>, <<"h","y","p","h","e","n">>, <<"m","i","n","u","s">>>>, repl |-> <<"-">>],
    [alts |-> <<<<"p","l","u","s">>, <<"a","d","d">>, <<"p","l","u","s"," ","s","i","g","n">>>>, repl |-> <<"+">>],
    [alts |-> <<<<"s","l","a","s","h">>, <<"f","o","r","w","a","r","d"," ","s","l","a","s","h">>>>, repl |-> <<"/">>],
    [alts |-> <<<<"b","a","c","k","s","l","a","s","h">>, <<"b","a","c","k"," ","s","l","a","s","h">>>>, repl |-> <<"\\">>],
    [alts |-> <<<<"s","t","a","r">>, <<"a","s","t","e","r","i","s","k">>>>, repl |-> <<"*">>],
    [alts |-> <<<<"p","e","r","c","e","n","t">>, <<"p","e","r","c","e","n","t","a","g","e">>>>, repl |-> <<"%">>],
    [alts |-> <<<<"e","q","u","a","l">>, <<"e","q","u","a","l","s">>, <<"e","q","u","a","l"," ","t","o">>>>, repl |-> <<"=">>],
    [alts |-> <<<<"g","r","e","a","t","e","r"," ","t","h","a","n">>>>, repl |-> <<">">>],
    [alts |-> <<<<"l","e","s","s"," ","t","h","a","n">>>>, repl |-> <<"<">>],
    [alts |-> <<<<"p","i","p","e">>, <<"v","e","r","t","i","c","a","l"," ","b","a","r">>>>, repl |-> <<"|">>],
    [alts |-> <<<<"c","a","r","e","t">>>>, repl |-> <<"^">>],
    [alts |-> <<<<"a","t">>, <<"a","t"," ","t","h","e"," ","r","a","t","e">>>>, repl |-> <<"@">>],
    [alts |-> <<<<"e","x","c","l","a","m","a","t","i","o","n">>, <<"b","a","n","g">>, <<"e","x","c","l","a","m","a","t","i","o","n"," ","m","a","r","k">>>>, repl |-> <<"!">>],
    [alts |-> <<<<"q","u","e","s","t","i","o","n"," ","m","a","r","k">>, <<"q","u","e","s","t","i","o","n">>>>, repl |-> <<"?">>],
    [alts |-> <<<<"q","u","o","t","e">>, <<"d","o","u","b","l","e"," ","q","u","o","t","e">>>>, repl |-> <<"\"">>],
    [alts |-> <<<<"s","i","n","g","l","e"," ","q","u","o","t","e">>, <<"a","p","o","s","t","r","o","p","h","e">>>>, repl |-> <<"'">>],
    [alts |-> <<<<"o","p","e","n"," ","p","a","r","e","n","t","h","e","s","i","s">>, <<"o","p","e","n"," ","b","r","a","c","k","e","t">>, <<"l","e","f","t"," ","p","a","r","e","n","t","h","e","s","i","s">>>>, repl |-> <<"(">>],
    [alts |-> <<<<"c","l","o","s","e"," ","p","a","r","e","n","t","h","e","s","i","s">>, <<"c","l","o","s","e"," ","b","r","a","c","k","e","t">>, <<"r","i","g","h","t"," ","p","a","r","e","n","t","h","e","s","i","s">>>>, repl |-> <<")">>],
    [alts |-> <<<<"o","p","e","n"," ","b","r","a","c","e">>, <<"l","e","f","t"," ","b","r","a","c","e">>>>, repl |-> <<"{">>],
    [alts |-> <<<<"c","l","o","s","e"," ","b","r","a","c","e">>, <<"r","i","g","h","t"," ","b","r","a","c","e">>>>, repl |-> <<"}">>],
    [alts |-> <<<<"o","p","e","n"," ","s","q","u","a","r","e"," ","b","r","a","c","k","e","t">>, <<"l","e","f","t"," ","s","q","u","a","r","e"," ","b","r","a","c","k","e","t">>>>, repl |-> <<"[">>],
    [alts |-> <<<<"c","l","o","s","e"," ","s","q","u","a","r","e"," ","b","r","a","c","k","e","t">>, <<"r","i","g","h","t"," ","s","q","u","a","r","e"," ","b","r","a","c","k","e","t">>>>, repl |-> <<"]">>],
    [alts |-> <<<<"s","p","a","c","e">>, <<"b","l","a","n","k">>>>, repl |-> <<" ">>],
    [alts |-> <<<<"n","e","w"," ","l","i","n","e">>, <<"n","e","w","l","i","n","e">>>>, repl |-> <<"\n">>]
>>

_EXTENSION_VARIANTS == <<
    [ext |-> <<"t","x","t">>, variants |-> <<<<"t"," ","x"," ","t">>, <<"t","x","t">>>>],
    [ext |-> <<"p","y">>, variants |-> <<<<"p"," ","y">>, <<"p","y">>>>],
    [ext |-> <<"c">>, variants |-> <<<<"c">>>>],
    [ext |-> <<"c","p","p">>, variants |-> <<<<"c"," ","p"," ","p">>, <<"c","p","p">>, <<"c"," ","p","l","u","s"," ","p","l","u","s">>>>]
>>

\* str.split(): the maximal runs of non-whitespace characters
RECURSIVE SplitWsAcc(_, _, _)
SplitWsAcc(s, piece, acc) ==
    IF s = <<>> THEN IF piece = <<>> THEN acc ELSE Append(acc, piece)
    ELSE IF Head(s) \in Whitespace
         THEN SplitWsAcc(Tail(s), <<>>, IF piece = <<>> THEN acc ELSE Append(acc, piece))
         ELSE SplitWsAcc(Tail(s), Append(piece, Head(s)), acc)

Split(s) == SplitWsAcc(s, <<>>, <<>>)

\* r"\s*".join(map(re.escape, variant.split()))
VariantRegex(variant) == Join(<<WsStar>>, Split(variant))

\* re.compile(r"\bdot\s+" + variant_regex + r"\b", re.I), f".{ext}"
DotExtPattern(ext, variant) ==
    [alts |-> << <<"d","o","t">> \o <<WsPlus>> \o VariantRegex(variant) >>,
     repl |-> <<".">> \o ext]

\* the loops that fill _DOT_EXT_PATTERNS, in the order of the dictionary
RECURSIVE VariantPatterns(_, _)
VariantPatterns(ext, variants) ==
    IF variants = <<>> THEN <<>>
    ELSE <<DotExtPattern(ext, Head(variants))>> \o VariantPatterns(ext, Tail(variants))

RECURSIVE ExtensionPatterns(_)
ExtensionPatterns(table) ==
    IF table = <<>> THEN <<>>
    ELSE VariantPatterns(Head(table).ext, Head(table).variants)
         \o ExtensionPatterns(Tail(table))

_DOT_EXT_PATTERNS == ExtensionPatterns(_EXTENSION_VARIANTS)

\* the character classes of the spacing steps
TightenClass ==
    {"/", "\\", ".", "-", "+", "*", "%", "=", "&", "|", "^", "#", "@", "!", "?",
     ",", ":", ";"}
OperatorClass == {"+", "-", "*", "/", "%", "=", "&", "|", "^", "<", ">"}
SentenceClass == {".", ",", "?", "!"}

\* steps 3 to the end of normalize_pronounced_punctuation
NormalizeSpacing(s0) ==
    LET s3 == SubSym(s0, TightenClass, <<>>, <<>>, TRUE)
        s4a == SubSym(s3, {"("}, <<>>, <<>>, TRUE)
        s4b == SubSym(s4a, {")"}, <<>>, <<>>, TRUE)
        s4c == SubSym(s4b, {"["}, <<>>, <<>>, TRUE)
        s4d == SubSym(s4c, {"]"}, <<>>, <<>>, TRUE)
        s4e == SubSym(s4d, {"{"}, <<>>, <<>>, TRUE)
        s4f == SubSym(s4e, {"}"}, <<>>, <<>>, TRUE)
        s5 == Collapse(s4f, {" ", "\t"})
        s6 == SubSym(s5, OperatorClass, <<" ">>, <<" ">>, TRUE)
        s7 == Collapse(s6, Whitespace)
        s8 == SubSym(s7, SentenceClass, <<>>, <<>>, FALSE)
    IN  Strip(Strip(s8))

normalize_pronounced_punctuation(text) ==
    NormalizeSpacing(ApplyRules(_PUNCT_PATTERNS, ApplyRules(_DOT_EXT_PATTERNS, text)))

(***************************************************************************)
(* Web_Open: normalize_word                                                *)
(***************************************************************************)
StartsWith(s, prefix) ==
    /\ Len(s) >= Len(prefix)
    /\ SubSeq(s, 1, Len(prefix)) = prefix

EndsWith(s, suffix) ==
    /\ Len(s) >= Len(suffix)
    /\ SubSeq(s, Len(s) - Len(suffix) + 1, Len(s)) = suffix

\* str.strip(chars)
RECURSIVE LStripChars(_, _)
LStripChars(s, chars) ==
    IF s # <<>> /\ Head(s) \in chars THEN LStripChars(Tail(s), chars) ELSE s

RECURSIVE RStripChars(_, _)
RStripChars(s, chars) ==
    IF s # <<>> /\ s[Len(s)] \in chars
    THEN RStripChars(SubSeq(s, 1, Len(s) - 1), chars)
    ELSE s

StripChars(s, chars) == LStripChars(RStripChars(s, chars), chars)

\* if w.startswith(prefix): w = w[len(prefix):]
RemovePrefix(w, prefix) ==
    IF StartsWith(w, prefix) THEN SubSeq(w, Len(prefix) + 1, Len(w)) ELSE w

\* if w.endswith(suffix): w = w[: -len(suffix)]
RemoveSuffix(w, suffix) ==
    IF EndsWith(w, suffix) THEN SubSeq(w, 1, Len(w) - Len(suffix)) ELSE w

\* for prefix in (...) / for suffix in (...): each one is tried in turn
RECURSIVE RemovePrefixes(_, _)
RemovePrefixes(w, prefixes) ==
    IF prefixes = <<>> THEN w
    ELSE RemovePrefixes(RemovePrefix(w, Head(prefixes)), Tail(prefixes))

RECURSIVE RemoveSuffixes(_, _)
RemoveSuffixes(w, suffixes) ==
    IF suffixes = <<>> THEN w
    ELSE RemoveSuffixes(RemoveSuffix(w, Head(suffixes)), Tail(suffixes))

PunctChars == {",", ".", "!", "?", "/", ":", "\\", "|"}
Protocols == <<<<"h","t","t","p",":","/","/">>, <<"h","t","t","p","s",":","/","/">>>>
DomainEndings == <<<<".","c","o","m">>, <<".","i","n">>, <<".","o","r","g">>, <<".","n","e","t">>>>

normalize_word(word) ==
    LET w1 == Strip(Lower(word))
        w2 == StripChars(w1, PunctChars)
        w3 == RemovePrefixes(w2, Protocols)
        w4 == RemovePrefix(w3, <<"w","w","w",".">>)
    IN  RemoveSuffixes(w4, DomainEndings)

(***************************************************************************)
(* Web_Open: similarity, difflib.SequenceMatcher(None, a, b).ratio()       *)
(***************************************************************************)
SetMax(S) == CHOOSE x \in S : \A y \in S : y <= x
SetMin(S) == CHOOSE x \in S : \A y \in S : x <= y

\* length of the block a[i..] = b[j..] inside a[..ahi], b[..bhi]
RECURSIVE BlockLen(_, _, _, _, _, _)
BlockLen(a, b, i, j, ahi, bhi) ==
    IF i <= ahi /\ j <= bhi /\ a[i] = b[j]
    THEN 1 + BlockLen(a, b, i + 1, j + 1, ahi, bhi)
    ELSE 0

\* find_longest_match: the longest block; of those the one starting earliest
\* in a, and of those the one starting earliest in b
FindLongestMatch(a, b, alo, ahi, blo, bhi) ==
    LET len == [p \in (alo..ahi) \X (blo..bhi) |->
                   BlockLen(a, b, p[1], p[2], ahi, bhi)]
        k == SetMax({len[p] : p \in DOMAIN len})
        i == SetMin({p[1] : p \in {q \in DOMAIN len : len[q] = k}})
        j == SetMin({p[2] : p \in {q \in DOMAIN len : len[q] = k /\ q[1] = i}})
    IN  [i |-> i, j |-> j, k |-> k]

\* get_matching_blocks: the block, then the pieces left and right of it
RECURSIVE MatchingChars(_, _, _, _, _, _)
MatchingChars(a, b, alo, ahi, blo, bhi) ==
    IF alo > ahi \/ blo > bhi THEN 0
    ELSE LET m == FindLongestMatch(a, b, alo, ahi, blo, bhi)
         IN  IF m.k = 0 THEN 0
             ELSE m.k + MatchingChars(a, b, alo, m.i - 1, blo, m.j - 1)
                      + MatchingChars(a, b, m.i + m.k, ahi, m.j + m.k, bhi)

\* ratio() = 2.0 * matches / (len(a) + len(b)), 1.0 for two empty strings;
\* the float is kept as the fraction num / den
similarity(a, b) ==
    IF Len(a) + Len(b) = 0 THEN [num |-> 1, den |-> 1]
    ELSE [num |-> 2 * MatchingChars(a, b, 1, Len(a), 1, Len(b)),
          den |-> Len(a) + Len(b)]

\* comparison of two ratios
ScoreGreater(x, y) == x.num * y.den > y.num * x.den
ScoreAtLeastPercent(x, percent) == x.num * 100 >= percent * x.den

(***************************************************************************)
(* Web_Open: get_candidates                                                *)
(***************************************************************************)
\* the website mapping, in the order of its keys
websites == <<
    [key |-> <<"y","o","u","t","u","b","e">>, url |-> "https://youtube.com"],
    [key |-> <<"y","t">>, url |-> "https://youtube.com"],
    [key |-> <<"m","a","p">>, url |-> "https://map.example"],
    [key |-> <<"m","a","p","s","a">>, url |-> "https://maps.example/a"],
    [key |-> <<"m","p","s">>, url |-> "https://mps.example"],
    [key |-> <<"m","a","p","s","b">>, url |-> "https://maps.example/b"],
    [key |-> <<"a","m","a","p","s">>, url |-> "https://maps.example/a"],
    [key |-> <<"m","a","p","s","c">>, url |-> "https://maps.example/c"]
>>

Keys == {websites[i].key : i \in DOMAIN websites}

\* websites[name]
UrlOf(name) == websites[CHOOSE i \in DOMAIN websites : websites[i].key = name].url

\* min_score: float = 0.82, max_results: int = 5
MinScorePercent == 82
MaxResults == 5

\* if score >= min_score
Qualifies(score, min_score) == ScoreAtLeastPercent(score, min_score)

\* for key in websites.keys(): ... scores.append((key, score))
RECURSIVE ScoreKeys(_, _, _)
ScoreKeys(name, entries, min_score) ==
    IF entries = <<>> THEN <<>>
    ELSE LET score == similarity(name, Head(entries).key)
         IN  (IF Qualifies(score, min_score)
              THEN <<[key |-> Head(entries).key, score |-> score]>>
              ELSE <<>>)
             \o ScoreKeys(name, Tail(entries), min_score)

\* x goes before the first entry that it beats (a stable descending sort)
RECURSIVE InsertAsc(_, _)
InsertAsc(x, sorted) ==
    IF sorted = <<>> THEN <<x>>
    ELSE IF ScoreGreater(Head(sorted).score, x.score) THEN <<x>> \o sorted
    ELSE <<Head(sorted)>> \o InsertAsc(x, Tail(sorted))

RECURSIVE InsertDesc(_, _)
InsertDesc(x, sorted) ==
    IF sorted = <<>> THEN <<x>>
    ELSE IF ScoreGreater(x.score, Head(sorted).score) THEN <<x>> \o sorted
    ELSE <<Head(sorted)>> \o InsertDesc(x, Tail(sorted))

\* scores.sort(key=lambda x: x[1], reverse=True)
RECURSIVE SortDescFrom(_, _)
SortDescFrom(list, sorted) ==
    IF list = <<>> THEN sorted
    ELSE SortDescFrom(Tail(list), InsertDesc(Head(list), sorted))

SortDesc(list) == SortDescFrom(list, <<>>)

\* scores[:max_results]
Take(list, n) == SubSeq(list, 1, IF n < Len(list) THEN n ELSE Len(list))

get_candidates(name, min_score, max_results) ==
    Take(SortDesc(ScoreKeys(name, websites, min_score)), max_results)

(***************************************************************************)
(* Web_Open: openweb                                                       *)
(***************************************************************************)
\* a character for which str.isdigit() is true and int() raises ValueError,
\* such as SUPERSCRIPT TWO
SuperscriptTwo == "sup2"

DecimalDigits == <<"0","1","2","3","4","5","6","7","8","9">>

\* choice.isdigit()
IsDigit(s) == s # <<>> /\ \A i \in DOMAIN s : s[i] \in Digits \cup {SuperscriptTwo}

\* int(choice) raises ValueError
IntRaises(s) == \E i \in DOMAIN s : s[i] \notin Digits

\* int(choice) for a string of decimal digits
RECURSIVE IntOf(_)
IntOf(s) ==
    IF s = <<>> THEN 0
    ELSE 10 * IntOf(SubSeq(s, 1, Len(s) - 1))
         + (CHOOSE d \in 0..9 : DecimalDigits[d + 1] = s[Len(s)])

\* input(...).strip().lower()
ReadAnswer(raw) == Lower(Strip(raw))

\* if name in websites
IsKeyNever(name) == FALSE

IsKey(name) == name \in Keys

\* if url not in opened_urls: urls_to_open.append(url); opened_urls.add(url)
AddUrl(st, url) ==
    IF url \in st.opened_urls THEN st
    ELSE [st EXCEPT !.urls_to_open = Append(@, url),
                    !.opened_urls = @ \cup {url}]

\* for cand, _ in candidates: ... add the URL of every listed candidate
RECURSIVE AddAll(_, _)
AddAll(st, cands) ==
    IF cands = <<>> THEN st
    ELSE AddAll(AddUrl(st, UrlOf(Head(cands).key)), Tail(cands))

\* the locals of openweb at the start of the loop
StartCall ==
    [idx |-> 1, urls_to_open |-> <<>>, opened_urls |-> {}, candidates |-> <<>>,
     pc |-> "loop", trace |-> <<>>]

\* what happened to one token: how it was handled, the candidates listed,
\* the answer typed, and the result list before and after it
Event(st, after_st, kind, answer, invalid) ==
    [word |-> st.idx, kind |-> kind, scored |-> kind # "exact",
     prompted |-> kind \in {"confirm", "choose", "raised"},
     listed |-> st.candidates, answer |-> answer, invalid |-> invalid,
     before |-> st.urls_to_open, after |-> after_st.urls_to_open]

\* continue with the next token
Advance(st, event) ==
    [st EXCEPT !.idx = @ + 1, !.candidates = <<>>, !.pc = "loop",
               !.trace = Append(@, event)]

\* the for loop of openweb, run until it needs an answer or has seen every
\* token
RECURSIVE RunLoop(_, _)
RunLoop(names, st) ==
    IF st.idx > Len(names) THEN [st EXCEPT !.pc = "finish"]
    ELSE LET name == names[st.idx]
         IN  IF IsKey(name)
             THEN LET added == AddUrl(st, UrlOf(name))
                  IN  RunLoop(names, Advance(added, Event(st, added, "exact", <<>>, FALSE)))
             ELSE LET cands == get_candidates(name, MinScorePercent, MaxResults)
                  IN  IF cands = <<>>
                      THEN RunLoop(names, Advance(st, Event(st, st, "none", <<>>, FALSE)))
                      ELSE [st EXCEPT !.candidates = cands,
                                      !.pc = IF Len(cands) = 1 THEN "confirm"
                                                               ELSE "choose"]

\* one candidate: "Did you mean ...? (y/n)"
AfterConfirmUnlessNo(st, raw) ==
    LET ans == ReadAnswer(raw)
        added == IF ans # <<"n">> THEN AddUrl(st, UrlOf(st.candidates[1].key)) ELSE st
    IN  Advance(added, Event(st, added, "confirm", raw, FALSE))

AfterConfirm(st, raw) ==
    LET ans == ReadAnswer(raw)
        added == IF ans = <<"y">> THEN AddUrl(st, UrlOf(st.candidates[1].key)) ELSE st
    IN  Advance(added, Event(st, added, "confirm", raw, FALSE))

\* several candidates: "Enter number to open, 'a' for all, or 'n' to skip"
AfterChoose(st, raw) ==
    LET choice == ReadAnswer(raw)
    IN  IF choice = <<"n">> \/ choice = <<>>
        THEN Advance(st, Event(st, st, "choose", raw, FALSE))
        ELSE IF choice = <<"a">>
        THEN LET added == AddAll(st, st.candidates)
             IN  Advance(added, Event(st, added, "choose", raw, FALSE))
        ELSE IF IsDigit(choice)
        THEN IF IntRaises(choice)
             THEN [st EXCEPT !.pc = "raised",
                             !.trace = Append(@, Event(st, st, "raised", raw, FALSE))]
             ELSE IF 1 <= IntOf(choice) /\ IntOf(choice) <= Len(st.candidates)
                  THEN LET added == AddUrl(st, UrlOf(st.candidates[IntOf(choice)].key))
                       IN  Advance(added, Event(st, added, "choose", raw, FALSE))
                  ELSE Advance(st, Event(st, st, "choose", raw, TRUE))
        ELSE Advance(st, Event(st, st, "choose", raw, TRUE))

\* log_to_file(message, status): one record appended, or nothing when the
\* write fails
log_to_file(contents, message, status, io_ok) ==
    IF io_ok THEN Append(contents, [message |-> message, status |-> status])
    ELSE contents

(***************************************************************************)
(* SpeechToText_Python: the loop of Speech_To_Text_Python.  An exception   *)
(* is named by its class; "none" stands for a call that returns.           *)
(***************************************************************************)
\* an Optional value of Python: None, or the value
None == <<>>
Some(x) == <<x>>

Faults == {"UnknownValueError", "KeyboardInterrupt", "OSError", "Exception"}

\* confidence < 0.3, confidences in hundredths
LowConfidencePercent == 30

\* recognizer.dynamic_energy_ratio, in tenths: starts at 1.8, grows by 0.1 up
\* to 2.2
EnergyRatioStart == 18
EnergyRatioStep == 1
EnergyRatioCap == 22

\* miss_streak at which recalibrate_noise adjusts
RecalibrateAfter == 4

Min(a, b) == IF a < b THEN a ELSE b

\* recalibrate_noise(recognizer, source, miss_streak); fault is what
\* adjust_for_ambient_noise raises
recalibrate_noise(st, fault) ==
    IF st.miss_streak < RecalibrateAfter THEN [st EXCEPT !.raised = "none"]
    ELSE IF fault # "none" THEN [st EXCEPT !.raised = fault]
    ELSE [st EXCEPT !.ratio = Min(@ + EnergyRatioStep, EnergyRatioCap),
                    !.miss_streak = 0, !.raised = "none"]

\* append_to_input_file(text): one record appended, or nothing when the
\* write fails
append_to_input_file(contents, text, io_ok) ==
    IF io_ok THEN Append(contents, text) ELSE contents

\* clean_text = " ".join(raw_text.split())
CleanText(raw_text) == Join(<<" ">>, Split(raw_text))

\* lines 303 to 319: the text in English; translation is what the
\* translator returns, None when it fails
TextInEnglish(clean_text, lang, translation) ==
    IF lang \in {<<"h","i">>, <<"b","n">>}
    THEN IF translation = None THEN clean_text ELSE translation[1]
    ELSE clean_text

\* lines 326 to 337: the low-confidence skip, the duplicate skip, the write
WriteOrSkip(st, text_for_file, confidence, io_ok) ==
    IF confidence # None /\ confidence[1] < LowConfidencePercent
    THEN [st EXCEPT !.event = "low_confidence"]
    ELSE IF text_for_file # <<>> /\ Some(text_for_file) = st.last_written
    THEN [st EXCEPT !.event = "duplicate"]
    ELSE [st EXCEPT !.output_file = append_to_input_file(@, text_for_file, io_ok),
                    !.appends = Append(@, text_for_file),
                    !.last_written = Some(text_for_file),
                    !.event = "written"]

\* lines 282 to 286: nothing recognized
AfterMiss(st, fault) ==
    recalibrate_noise([st EXCEPT !.miss_streak = @ + 1, !.event = "miss"], fault)

\* lines 339 to 347 and 352 to 359: where an exception raised in the try
\* body takes the function.  A handler runs recalibrate_noise outside the
\* try body, so what that raises leaves the loop.
AfterRaise(st, raised, handler_fault) ==
    IF raised = "KeyboardInterrupt" THEN [st EXCEPT !.pc = "exited", !.raised = raised]
    ELSE IF raised = "UnknownValueError"
    THEN LET handled == recalibrate_noise([st EXCEPT !.miss_streak = @ + 1], handler_fault)
         IN  IF handled.raised = "none" THEN [handled EXCEPT !.raised = raised]
             ELSE IF handled.raised = "KeyboardInterrupt"
             THEN [handled EXCEPT !.pc = "aborted"]
             ELSE [handled EXCEPT !.pc = "error"]
    ELSE [st EXCEPT !.pc = "error", !.raised = raised]

(***************************************************************************)
(* Web_Open: main                                                          *)
(***************************************************************************)
ExitWords == {<<"e","x","i","t">>, <<"q","u","i","t">>, <<"q">>}

(***************************************************************************)
(* The states in which a utility is not in use.                            *)
(***************************************************************************)
ChunkIdle ==
    /\ tts_text = <<>>
    /\ max_chunk_len = 0
    /\ chunks = <<>>
    /\ tts_pc = "idle"

NormIdle ==
    /\ spoken = <<>>
    /\ phrase_case = [kind |-> "none"]
    /\ normalized = <<>>
    /\ norm_pc = "idle"

CandIdle ==
    /\ cand_name = <<>>
    /\ scores = <<>>
    /\ cand_pc = "idle"

WebIdle ==
    /\ web_text = <<>>
    /\ words = <<>>
    /\ normalized_words = <<>>
    /\ idx = 1
    /\ urls_to_open = <<>>
    /\ opened_urls = {}
    /\ candidates = <<>>
    /\ trace = <<>>
    /\ launched = <<>>
    /\ log_calls = <<>>
    /\ file = <<>>
    /\ pc = "idle"

WordIdle ==
    /\ token = <<>>
    /\ word_out = <<>>
    /\ word_pc = "idle"

SttIdle ==
    /\ stt_pc = "idle"
    /\ miss_streak = 0
    /\ last_written = None
    /\ dynamic_energy_ratio = EnergyRatioStart
    /\ output_file = <<>>
    /\ appends = <<>>
    /\ stt_turns = 0
    /\ stt_event = [kind |-> "none", raised |-> "none", heard |-> <<>>]

MainIdle ==
    /\ main_pc = "idle"
    /\ main_turns = 0

(***************************************************************************)
(* The chunker's inputs and steps.                                         *)
(***************************************************************************)
ChunkAlphabet == {"a", "b", " ", ".", "?"}

RECURSIVE StringsUpTo(_, _)
StringsUpTo(alphabet, n) ==
    IF n = 0 THEN {<<>>}
    ELSE LET shorter == StringsUpTo(alphabet, n - 1)
         IN  shorter \cup {Append(s, c) : s \in {x \in shorter : Len(x) = n - 1},
                                          c \in alphabet}

InitChunk ==
    /\ NormIdle /\ CandIdle /\ WebIdle /\ WordIdle /\ SttIdle /\ MainIdle
    /\ tts_text \in StringsUpTo(ChunkAlphabet, MaxTextLen)
    /\ max_chunk_len \in 0..MaxChunkLen
    /\ chunks = <<>>
    /\ tts_pc = "call"

\* a direct call of the helper
ChunkText ==
    /\ tts_pc = "call"
    /\ chunks' = _chunk_text(tts_text, max_chunk_len)
    /\ tts_pc' = "returned"
    /\ UNCHANGED <<tts_text, max_chunk_len, normVars, candVars, webVars, wordVars, sttVars, mainVars>>

\* speak(text): blank text is refused before the helper is called
SpeakEmpty ==
    /\ tts_pc = "call"
    /\ IsBlank(tts_text)
    /\ tts_pc' = "empty"
    /\ UNCHANGED <<tts_text, max_chunk_len, chunks, normVars, candVars, webVars, wordVars, sttVars, mainVars>>

Speak ==
    /\ tts_pc = "call"
    /\ ~IsBlank(tts_text)
    /\ chunks' = _chunk_text(tts_text, max_chunk_len)
    /\ tts_pc' = "spoken"
    /\ UNCHANGED <<tts_text, max_chunk_len, normVars, candVars, webVars, wordVars, sttVars, mainVars>>

NextChunk == ChunkText \/ SpeakEmpty \/ Speak

SpecChunk == InitChunk /\ [][NextChunk]_vars

(***************************************************************************)
(* The normalizer's inputs and steps.                                      *)
(***************************************************************************)
\* str.upper()
UpperChar(c) ==
    IF c \in Range(LowerCase)
    THEN UpperCase[CHOOSE i \in DOMAIN LowerCase : LowerCase[i] = c]
    ELSE c

Upper(s) == [i \in DOMAIN s |-> UpperChar(s[i])]

\* plain words: no rule matches them
WordsBefore == {<<"f","i","l","e">>, <<"x">>}
WordsAfter == {<<"n","a","m","e">>, <<"y">>}

\* "<word> dot <variant>" for every variant of every configured extension
ExtCases ==
    UNION {{[kind |-> "ext", before |-> w,
             phrase |-> _EXTENSION_VARIANTS[e].variants[v],
             symbol |-> <<".">> \o _EXTENSION_VARIANTS[e].ext, after |-> <<>>,
             upper |-> u]
            : v \in DOMAIN _EXTENSION_VARIANTS[e].variants,
              w \in WordsBefore, u \in BOOLEAN}
           : e \in DOMAIN _EXTENSION_VARIANTS}

\* "<word> <phrase> <word>" for every phrase of every punctuation rule
PunctCases ==
    UNION {{[kind |-> "punct", before |-> w,
             phrase |-> _PUNCT_PATTERNS[r].alts[a],
             symbol |-> _PUNCT_PATTERNS[r].repl, after |-> x,
             upper |-> u]
            : a \in DOMAIN _PUNCT_PATTERNS[r].alts,
              w \in WordsBefore, x \in WordsAfter, u \in BOOLEAN}
           : r \in DOMAIN _PUNCT_PATTERNS}

\* the text spoken for a case; the phrase in capitals when upper is set
Utterance(c) ==
    LET said == IF c.upper THEN Upper(c.phrase) ELSE c.phrase
    IN  IF c.kind = "ext"
        THEN c.before \o <<" ">> \o (IF c.upper THEN <<"D","O","T">> ELSE <<"d","o","t">>) \o <<" ">> \o said
        ELSE c.before \o <<" ">> \o said \o <<" ">> \o c.after

InitNorm ==
    /\ ChunkIdle /\ CandIdle /\ WebIdle /\ WordIdle /\ SttIdle /\ MainIdle
    /\ phrase_case \in ExtCases \cup PunctCases
    /\ spoken = Utterance(phrase_case)
    /\ normalized = <<>>
    /\ norm_pc = "heard"

\* text_for_file = normalize_pronounced_punctuation(text_for_file)
Normalize ==
    /\ norm_pc = "heard"
    /\ normalized' = normalize_pronounced_punctuation(spoken)
    /\ norm_pc' = "normalized"
    /\ UNCHANGED <<spoken, phrase_case, chunkVars, candVars, webVars, wordVars, sttVars, mainVars>>

NextNorm == Normalize

SpecNorm == InitNorm /\ [][NextNorm]_vars

(***************************************************************************)
(* get_candidates: inputs and steps.                                       *)
(***************************************************************************)
NameAlphabet == {"m", "a", "p", "s"}

InitCand ==
    /\ ChunkIdle /\ NormIdle /\ WebIdle /\ WordIdle /\ SttIdle /\ MainIdle
    /\ cand_name \in StringsUpTo(NameAlphabet, MaxNameLen)
    /\ scores = <<>>
    /\ cand_pc = "call"

\* candidates = get_candidates(name)
GetCandidates ==
    /\ cand_pc = "call"
    /\ scores' = get_candidates(cand_name, MinScorePercent, MaxResults)
    /\ cand_pc' = "returned"
    /\ UNCHANGED <<cand_name, chunkVars, normVars, webVars, wordVars, sttVars, mainVars>>

NextCand == GetCandidates

SpecCand == InitCand /\ [][NextCand]_vars

(***************************************************************************)
(* openweb: inputs and steps.                                              *)
(***************************************************************************)
\* the words an utterance is made of
Words == {<<"y","o","u","t","u","b","e">>, <<"Y","o","u","T","u","b","e",".","c","o","m",",">>, <<"y","t">>, <<"y","o","u","t","u","b">>, <<"m","a","p","s">>, <<"z","z","z">>}

\* what the operator may type at a prompt
Answers ==
    {<<"y">>, <<" ","Y"," ">>, <<"n">>, <<"N">>, <<>>, <<"a">>, <<"A">>, <<"1">>, <<" ","5">>, <<"6">>, <<"0">>, <<"x">>,
     <<SuperscriptTwo>>}

RECURSIVE WordLists(_)
WordLists(n) ==
    IF n = 0 THEN {<<>>}
    ELSE LET shorter == WordLists(n - 1)
         IN  shorter \cup {Append(l, w) : l \in {x \in shorter : Len(x) = n - 1},
                                          w \in Words}

Utterances == {Join(<<" ">>, l) : l \in WordLists(MaxWords)}

InitWeb ==
    /\ ChunkIdle /\ NormIdle /\ CandIdle /\ WordIdle /\ SttIdle /\ MainIdle
    /\ WebIdle

\* the variables take the locals of the call; when the loop is over, lines
\* 153 to 160: every URL goes to webbrowser.open and the outcome is logged
Commit(st, message, io_ok) ==
    /\ idx' = st.idx
    /\ urls_to_open' = st.urls_to_open
    /\ opened_urls' = st.opened_urls
    /\ candidates' = st.candidates
    /\ trace' = st.trace
    /\ IF st.pc = "finish"
       THEN /\ pc' = "done"
            /\ launched' = st.urls_to_open
            /\ log_calls' = Append(log_calls, [message |-> message,
                                               status |-> st.urls_to_open # <<>>])
            /\ file' = log_to_file(file, message, st.urls_to_open # <<>>, io_ok)
       ELSE /\ pc' = st.pc
            /\ UNCHANGED <<launched, log_calls, file>>

Locals ==
    [idx |-> idx, urls_to_open |-> urls_to_open, opened_urls |-> opened_urls,
     candidates |-> candidates, pc |-> pc, trace |-> trace]

\* openweb(text), up to its first prompt or to its end
OpenwebCall(t) ==
    \E io_ok \in BOOLEAN :
        LET names == [i \in DOMAIN Split(t) |-> normalize_word(Split(t)[i])]
        IN  /\ web_text' = t
            /\ words' = Split(t)
            /\ normalized_words' = names
            /\ Commit(RunLoop(names, StartCall), t, io_ok)

Call ==
    /\ pc = "idle"
    /\ \E t \in Utterances : OpenwebCall(t)
    /\ UNCHANGED <<chunkVars, normVars, candVars, wordVars, sttVars, mainVars>>

\* the operator answers the yes/no confirmation
AnswerConfirm ==
    /\ pc = "confirm"
    /\ \E raw \in Answers, io_ok \in BOOLEAN :
        Commit(RunLoop(normalized_words, AfterConfirm(Locals, raw)), web_text, io_ok)
    /\ UNCHANGED <<web_text, words, normalized_words, chunkVars, normVars, candVars, wordVars, sttVars, mainVars>>

\* the operator answers the numbered list
AnswerChoose ==
    /\ pc = "choose"
    /\ \E raw \in Answers, io_ok \in BOOLEAN :
        LET st == AfterChoose(Locals, raw)
        IN  Commit(IF st.pc = "raised" THEN st ELSE RunLoop(normalized_words, st),
                   web_text, io_ok)
    /\ UNCHANGED <<web_text, words, normalized_words, chunkVars, normVars, candVars, wordVars, sttVars, mainVars>>

NextWeb == Call \/ AnswerConfirm \/ AnswerChoose

SpecWeb == InitWeb /\ [][NextWeb]_vars

(***************************************************************************)
(* normalize_word's inputs and steps.                                      *)
(***************************************************************************)
\* domain endings written one after another, at most n of them
RECURSIVE SuffixChains(_)
SuffixChains(n) ==
    IF n = 0 THEN {<<>>}
    ELSE LET shorter == SuffixChains(n - 1)
         IN  shorter \cup {c \o DomainEndings[i] : c \in shorter, i \in DOMAIN DomainEndings}

Stems == {<<"m","a","p","s">>, <<"y","t">>, <<"a",".","b">>}

\* tokens as they are typed or heard: a stem, with or without a protocol,
\* "www.", domain endings and punctuation after it, in small letters or in
\* capitals
Tokens ==
    {IF up THEN Upper(t) ELSE t :
        t \in {proto \o www \o stem \o chain \o punct :
                 proto \in {<<>>} \cup Range(Protocols),
                 www \in {<<>>, <<"w","w","w",".">>},
                 stem \in Stems,
                 chain \in SuffixChains(MaxSuffixes),
                 punct \in {<<>>, <<",">>, <<"/">>}},
        up \in BOOLEAN}

InitWord ==
    /\ ChunkIdle /\ NormIdle /\ CandIdle /\ WebIdle /\ SttIdle /\ MainIdle
    /\ token \in Tokens
    /\ word_out = <<>>
    /\ word_pc = "call"

\* normalized_words = [normalize_word(w) for w in words], one token
NormalizeWord ==
    /\ word_pc = "call"
    /\ word_out' = normalize_word(token)
    /\ word_pc' = "returned"
    /\ UNCHANGED <<token, chunkVars, normVars, candVars, webVars, sttVars, mainVars>>

NextWord == NormalizeWord

SpecWord == InitWord /\ [][NextWord]_vars

(***************************************************************************)
(* The two loops: their inputs and steps.                                  *)
(***************************************************************************)
\* what the recognizer returns for a phrase
Transcripts == {<<"h","e","l","l","o">>, <<"s","p","a","c","e">>, <<"x"," "," ","d","o","t"," ","p","y">>}

\* what the translator returns for a phrase, None when it fails
Translations == {None, Some(<<"b","l","a","n","k">>)}

\* confidence: absent, or in hundredths
Confidences == {None, Some(29), Some(30)}

Languages == {<<"e","n">>, <<"h","i">>, <<"b","n">>, <<>>}

\* text_for_file = normalize_pronounced_punctuation(text_for_file), for the
\* texts of the model
NormalizedText ==
    [t \in {CleanText(r) : r \in Transcripts}
            \cup {tr[1] : tr \in Translations \ {None}} |->
        normalize_pronounced_punctuation(t)]

\* what the operator types at the prompt of main
Typed == {<<"e","x","i","t">>, <<" ","Q","u","i","t"," ">>, <<"q">>, <<>>, <<" "," ">>, <<" ","m","a","p","s"," ">>, <<"y","o","u","t","u","b"," ","y","t">>, <<"z","z","z">>}

\* one of the two programs is started
InitLoops ==
    /\ ChunkIdle /\ NormIdle /\ CandIdle /\ WebIdle /\ WordIdle
    /\ \/ SttIdle /\ main_pc = "prompt" /\ main_turns = 0
       \/ MainIdle
          /\ stt_pc = "start"
          /\ miss_streak = 0
          /\ last_written = None
          /\ dynamic_energy_ratio = EnergyRatioStart
          /\ output_file = <<>>
          /\ appends = <<>>
          /\ stt_turns = 0
          /\ stt_event = [kind |-> "none", raised |-> "none", heard |-> <<>>]

SttLocals ==
    [miss_streak |-> miss_streak, last_written |-> last_written,
     ratio |-> dynamic_energy_ratio, output_file |-> output_file,
     appends |-> appends, pc |-> "listening", event |-> "fault", raised |-> "none",
     heard |-> <<>>]

\* the variables take the locals at the end of a turn
SttCommit(st) ==
    /\ miss_streak' = st.miss_streak
    /\ last_written' = st.last_written
    /\ dynamic_energy_ratio' = st.ratio
    /\ output_file' = st.output_file
    /\ appends' = st.appends
    /\ stt_pc' = st.pc
    /\ stt_event' = [kind |-> st.event, raised |-> st.raised, heard |-> st.heard]
    /\ stt_turns' = stt_turns + 1

\* lines 255 to 271: the microphone is opened and calibrated
SpeechStart ==
    /\ stt_pc = "start"
    /\ \E fault \in {"none", "OSError", "Exception"} :
        stt_pc' = IF fault = "none" THEN "listening" ELSE "start_error"
    /\ UNCHANGED <<miss_streak, last_written, dynamic_energy_ratio, output_file,
                   appends, stt_turns, stt_event,
                   chunkVars, normVars, candVars, webVars, wordVars, mainVars>>

\* a turn in which listen raises
TurnFault ==
    /\ stt_pc = "listening"
    /\ stt_turns < MaxTurns
    /\ \E raised \in Faults, handler_fault \in Faults \cup {"none"} :
        SttCommit(AfterRaise(SttLocals, raised, handler_fault))
    /\ UNCHANGED <<chunkVars, normVars, candVars, webVars, wordVars, mainVars>>

\* a turn in which nothing is recognized
TurnMiss ==
    /\ stt_pc = "listening"
    /\ stt_turns < MaxTurns
    /\ \E fault \in Faults \cup {"none"} :
        LET st == AfterMiss(SttLocals, fault)
        IN  SttCommit(IF st.raised = "none" THEN st
                      ELSE AfterRaise(st, st.raised, "none"))
    /\ UNCHANGED <<chunkVars, normVars, candVars, webVars, wordVars, mainVars>>

\* a turn in which a text is recognized
TurnText ==
    /\ stt_pc = "listening"
    /\ stt_turns < MaxTurns
    /\ Len(appends) < MaxWrites
    /\ \E raw_text \in Transcripts, confidence \in Confidences,
          lang \in Languages, translation \in Translations, io_ok \in BOOLEAN :
        LET clean_text == CleanText(raw_text)
            text_for_file ==
                NormalizedText[TextInEnglish(clean_text, lang, translation)]
        IN  SttCommit(WriteOrSkip([SttLocals EXCEPT !.miss_streak = 0, !.heard = raw_text],
                                  text_for_file, confidence, io_ok))
    /\ UNCHANGED <<chunkVars, normVars, candVars, webVars, wordVars, mainVars>>

\* main: "exit", "quit" or "q" is typed
MainExit ==
    /\ main_pc = "prompt" /\ pc = "idle"
    /\ \E typed \in Typed : Lower(Strip(typed)) \in ExitWords
    /\ main_pc' = "exited"
    /\ UNCHANGED <<main_turns, chunkVars, normVars, candVars, webVars, wordVars, sttVars>>

\* main: nothing is typed
MainBlank ==
    /\ main_pc = "prompt" /\ pc = "idle"
    /\ main_turns < MaxCalls
    /\ \E typed \in Typed : Strip(typed) = <<>>
    /\ main_turns' = main_turns + 1
    /\ UNCHANGED <<main_pc, chunkVars, normVars, candVars, webVars, wordVars, sttVars>>

\* main: the operator interrupts at a prompt; nothing catches it
MainInterrupt ==
    /\ main_pc = "prompt" /\ pc \in {"idle", "confirm", "choose"}
    /\ main_pc' = "aborted"
    /\ UNCHANGED <<main_turns, chunkVars, normVars, candVars, webVars, wordVars, sttVars>>

\* main: openweb(web_input), up to its first prompt or to its end
MainOpen ==
    /\ main_pc = "prompt" /\ pc = "idle"
    /\ main_turns < MaxCalls
    /\ \E typed \in Typed :
        LET web_input == Strip(typed)
        IN  /\ Lower(web_input) \notin ExitWords
            /\ web_input # <<>>
            /\ OpenwebCall(web_input)
    /\ main_turns' = main_turns + 1
    /\ UNCHANGED <<main_pc, chunkVars, normVars, candVars, wordVars, sttVars>>

\* main: openweb returned, the loop is at its prompt again
MainContinue ==
    /\ main_pc = "prompt" /\ pc = "done"
    /\ web_text' = <<>> /\ words' = <<>> /\ normalized_words' = <<>>
    /\ idx' = 1 /\ urls_to_open' = <<>> /\ opened_urls' = {}
    /\ candidates' = <<>> /\ trace' = <<>> /\ launched' = <<>>
    /\ pc' = "idle"
    /\ UNCHANGED <<log_calls, file, mainVars, chunkVars, normVars, candVars,
                   wordVars, sttVars>>

\* main: openweb raised, nothing catches it
MainCrash ==
    /\ main_pc = "prompt" /\ pc = "raised"
    /\ main_pc' = "crashed"
    /\ UNCHANGED <<main_turns, chunkVars, normVars, candVars, webVars, wordVars, sttVars>>

NextLoops ==
    \/ SpeechStart \/ TurnFault \/ TurnMiss \/ TurnText
    \/ MainExit \/ MainBlank \/ MainInterrupt \/ MainOpen
    \/ (main_pc = "prompt" /\ AnswerConfirm)
    \/ (main_pc = "prompt" /\ AnswerChoose)
    \/ MainContinue \/ MainCrash

SpecLoops == InitLoops /\ [][NextLoops]_vars

(***************************************************************************)
(* Properties of the chunker.                                              *)
(***************************************************************************)
ChunkDone == tts_pc \in {"returned", "spoken"}

\* the non-empty trimmed sentences of a string, in order
RECURSIVE NonEmptyTrimmed(_)
NonEmptyTrimmed(pieces) ==
    IF pieces = <<>> THEN <<>>
    ELSE LET p == Strip(Head(pieces))
         IN  IF p = <<>> THEN NonEmptyTrimmed(Tail(pieces))
             ELSE <<p>> \o NonEmptyTrimmed(Tail(pieces))

SentencesOf(s) == NonEmptyTrimmed(SplitSentences(s))

RECURSIVE SentencesOfAll(_)
SentencesOfAll(list) ==
    IF list = <<>> THEN <<>>
    ELSE SentencesOf(Head(list)) \o SentencesOfAll(Tail(list))

\* C1: every returned chunk has length <= max_len, unless it consists of a
\* single sentence whose own length exceeds max_len (length measured as
\* returned, with the ". " separators and the trailing period).
C1_ChunkWithinMax ==
    ChunkDone =>
        \A i \in DOMAIN chunks :
            \/ Len(chunks[i]) <= max_chunk_len
            \/ /\ Len(SentencesOf(chunks[i])) = 1
               /\ Len(SentencesOf(chunks[i])[1]) > max_chunk_len

\* C2: the sentences of the returned chunks, taken in order, are exactly the
\* non-empty trimmed sentences of the original text: none lost, duplicated
\* or reordered.
C2_SentencesPreserved ==
    ChunkDone => SentencesOfAll(chunks) = SentencesOf(tts_text)

\* C2 witness: a chunk of two sentences was sealed and the sentence that did
\* not fit came out in a later chunk.
C2_Witness ==
    /\ tts_pc = "returned"
    /\ Len(chunks) >= 2
    /\ Len(SentencesOf(chunks[1])) >= 2

\* C3 as stated: no element of the returned sequence is the empty string,
\* for every text and every max_len.
C3_NoEmptyChunk ==
    ChunkDone => \A i \in DOMAIN chunks : chunks[i] # <<>>

\* C3 amended: for every text with at least one non-whitespace character
\* (the only texts speak hands to _chunk_text) no returned chunk is empty;
\* for a blank text _chunk_text returns the single empty string.
C3_NoEmptyChunkUnlessBlank ==
    ChunkDone =>
        IF IsBlank(tts_text)
        THEN chunks = << <<>> >>
        ELSE \A i \in DOMAIN chunks : chunks[i] # <<>>

\* C3 witness: a text with leading whitespace went through speak and was
\* split into several chunks.
C3_Witness ==
    /\ tts_pc = "spoken"
    /\ Head(tts_text) \in Whitespace
    /\ Len(chunks) >= 2
(***************************************************************************)
(* Properties of the normalizer.                                           *)
(***************************************************************************)
\* the string without its whitespace
Squeeze(s) == SelectSeq(s, LAMBDA c : c \notin Whitespace)

\* C9: for every configured extension and every spoken variant of it,
\* "<word> dot <variant>" is normalized to a string that ends in
\* "<word>.<extension>".
C9_DotVariantGivesExtension ==
    (norm_pc = "normalized" /\ phrase_case.kind = "ext") =>
        EndsWith(normalized, phrase_case.before \o phrase_case.symbol)

\* C10: every phrase of the punctuation rule list whose symbol is not
\* whitespace, standing as whole words between two plain words, is replaced
\* as a whole by its rule's symbol: apart from spacing the output is
\* "<word><symbol><word>".
C10_PhraseGivesSymbol ==
    (/\ norm_pc = "normalized"
     /\ phrase_case.kind = "punct"
     /\ Range(phrase_case.symbol) \cap Whitespace = {}) =>
        Squeeze(normalized) = phrase_case.before \o phrase_case.symbol \o phrase_case.after

\* C11: a spoken "new line" or "newline" between two plain words gives a
\* newline character between those words in the returned string: the
\* output is the first word, whitespace that holds a newline, the second
\* word.
C11_NewlineSurvives ==
    (/\ norm_pc = "normalized"
     /\ phrase_case.kind = "punct"
     /\ phrase_case.symbol = <<"\n">>) =>
        \E gap \in {<<"\n">>, <<" ","\n">>, <<"\n"," ">>, <<" ","\n"," ">>} :
            normalized = phrase_case.before \o gap \o phrase_case.after

(***************************************************************************)
(* Properties of get_candidates.                                           *)
(***************************************************************************)
ReturnedKeys == {scores[i].key : i \in DOMAIN scores}

\* C8: every returned entry is a mapping key with its similarity score, the
\* score is at least min_score (0.82), the entries are in non-increasing
\* score order, there are at most max_results (5) of them, and no key with a
\* strictly higher score than a returned entry is left out.
C8_CandidatesRanked ==
    cand_pc = "returned" =>
        /\ Len(scores) <= MaxResults
        /\ \A i \in DOMAIN scores :
            /\ scores[i].key \in Keys
            /\ scores[i].score = similarity(cand_name, scores[i].key)
            /\ scores[i].score.num * 100 >= MinScorePercent * scores[i].score.den
        /\ \A i, j \in DOMAIN scores :
            i < j => ~ScoreGreater(scores[j].score, scores[i].score)
        /\ \A k \in Keys : \A i \in DOMAIN scores :
            ScoreGreater(similarity(cand_name, k), scores[i].score)
                => k \in ReturnedKeys

\* C8 witness: more keys reach the threshold than may be returned, the list
\* is cut to max_results and holds two different scores.
C8_Witness ==
    /\ cand_pc = "returned"
    /\ Len(scores) = MaxResults
    /\ ScoreGreater(scores[1].score, scores[MaxResults].score)
    /\ \E k \in Keys \ ReturnedKeys :
        similarity(cand_name, k).num * 100 >= MinScorePercent * similarity(cand_name, k).den

(***************************************************************************)
(* Properties of openweb.                                                  *)
(***************************************************************************)
\* the call is over: it returned or it raised
CallEnded == pc \in {"done", "raised"}

Count(x, list) == Cardinality({i \in DOMAIN list : list[i] = x})

\* the URL of a listed candidate
ListedUrl(e, k) == UrlOf(e.listed[k].key)

\* the result list after url was selected: appended unless already there
WithUrl(list, url) == IF Count(url, list) > 0 THEN list ELSE Append(list, url)

\* the answer as the prompt reads it: trimmed and lower-cased
Folded(e) == Lower(Strip(e.answer))

\* C4: a call of openweb ends in one of two outcomes. Every token was
\* processed and exactly one log append was attempted, with the original
\* utterance; with URLs selected they were all passed to the browser and the
\* flag is True, with none selected nothing was launched and the flag is
\* False.
C4_OneOutcomeOneLog ==
    CallEnded =>
        /\ idx = Len(words) + 1
        /\ Len(log_calls) = 1
        /\ log_calls[1].message = web_text
        /\ log_calls[1].status = (urls_to_open # <<>>)
        /\ launched = urls_to_open
        /\ file \in {<<>>, log_calls}

\* C5: a token whose normalized form is a key of the mapping gets that
\* key's URL into the result exactly once, with no similarity scoring and no
\* prompt; prompts occur only for tokens that are not keys.
C5_ExactMatchNoPrompt ==
    /\ \A n \in DOMAIN trace :
        LET e == trace[n]
        IN  IF normalized_words[e.word] \in Keys
            THEN /\ e.kind = "exact"
                 /\ ~e.scored /\ ~e.prompted
                 /\ Count(UrlOf(normalized_words[e.word]), e.after) = 1
                 /\ e.after = WithUrl(e.before, UrlOf(normalized_words[e.word]))
            ELSE e.kind # "exact" /\ e.scored
    /\ pc \in {"confirm", "choose"} => normalized_words[idx] \notin Keys

\* C5 witness: a call handled a token that is a key only after
\* normalization, and a token that needed a prompt.
C5_Witness ==
    /\ pc = "done"
    /\ \E n \in DOMAIN trace :
        trace[n].kind = "exact" /\ words[trace[n].word] \notin Keys
    /\ \E n \in DOMAIN trace : trace[n].prompted

\* the candidates of every token of the utterances, as get_candidates
\* returns them
CandidatesOf ==
    [name \in {normalize_word(w) : w \in Words} |->
        get_candidates(name, MinScorePercent, MaxResults)]

\* the tokens with exactly one candidate are the ones that get the yes/no
\* confirmation, and it names that candidate
ConfirmIffOneCandidate ==
    /\ \A n \in DOMAIN trace :
        LET e == trace[n]
            name == normalized_words[e.word]
        IN  (name \notin Keys /\ Len(CandidatesOf[name]) = 1)
                => (e.kind = "confirm" /\ e.listed = CandidatesOf[name])
    /\ (pc \notin {"idle", "done", "raised"} /\ normalized_words[idx] \notin Keys
        /\ Len(CandidatesOf[normalized_words[idx]]) = 1)
            => (pc = "confirm" /\ candidates = CandidatesOf[normalized_words[idx]])

\* C6 as stated: at the yes/no confirmation the answer "y" adds the
\* candidate's URL and any other answer adds no URL for that token.
C6_OnlyYAdds ==
    /\ ConfirmIffOneCandidate
    /\ \A n \in DOMAIN trace :
        trace[n].kind = "confirm" =>
            IF trace[n].answer = <<"y">>
            THEN trace[n].after = WithUrl(trace[n].before, ListedUrl(trace[n], 1))
            ELSE trace[n].after = trace[n].before

\* C6 amended: the answer is read trimmed and lower-cased; an answer that
\* reads "y" adds the candidate's URL unless the result has it already, and
\* any other answer adds no URL for that token.
C6_OnlyFoldedYAdds ==
    /\ ConfirmIffOneCandidate
    /\ \A n \in DOMAIN trace :
        trace[n].kind = "confirm" =>
            IF Folded(trace[n]) = <<"y">>
            THEN trace[n].after = WithUrl(trace[n].before, ListedUrl(trace[n], 1))
            ELSE trace[n].after = trace[n].before

\* C6 witness: one confirmation was answered with a yes that added the
\* URL, another with something else.
C6_Witness ==
    /\ pc = "done"
    /\ \E n \in DOMAIN trace :
        /\ trace[n].kind = "confirm"
        /\ Folded(trace[n]) = <<"y">>
        /\ Len(trace[n].after) = Len(trace[n].before) + 1
    /\ \E n \in DOMAIN trace :
        trace[n].kind = "confirm" /\ Folded(trace[n]) # <<"y">>

\* the listed candidates' URLs, added in the order listed
RECURSIVE WithAllListed(_, _, _)
WithAllListed(list, e, k) ==
    IF k > Len(e.listed) THEN list
    ELSE WithAllListed(WithUrl(list, ListedUrl(e, k)), e, k + 1)

\* the answer is a decimal number
IsNumber(s) == s # <<>> /\ \A i \in DOMAIN s : s[i] \in Digits

\* C7: at the numbered list the single answer, as the prompt reads it,
\* decides the token: a number k within the list adds the k-th candidate's
\* URL, "a" adds the URLs of all listed candidates, each at most once, "n"
\* or nothing adds nothing, anything else is reported invalid and adds no
\* URL; in every case the call goes on with the next token.
C7_AnswerDecidesToken ==
    /\ pc # "raised"
    /\ \A n \in DOMAIN trace :
        LET e == trace[n]
        IN  e.kind = "choose" =>
            /\ Len(e.listed) >= 2
            /\ IF IsNumber(Folded(e)) /\ 1 <= IntOf(Folded(e))
                  /\ IntOf(Folded(e)) <= Len(e.listed)
               THEN ~e.invalid
                    /\ e.after = WithUrl(e.before, ListedUrl(e, IntOf(Folded(e))))
               ELSE IF Folded(e) = <<"a">>
               THEN /\ ~e.invalid
                    /\ e.after = WithAllListed(e.before, e, 1)
                    /\ \A u \in Range(e.after) : Count(u, e.after) = 1
               ELSE IF Folded(e) \in {<<"n">>, <<>>}
               THEN ~e.invalid /\ e.after = e.before
               ELSE e.invalid /\ e.after = e.before

(***************************************************************************)
(* Properties of normalize_word.                                           *)
(***************************************************************************)
\* the token in small letters with whitespace, punctuation, protocol and
\* "www." stripped
StrippedToken(word) ==
    RemovePrefix(RemovePrefixes(StripChars(Strip(Lower(word)), PunctChars), Protocols),
                 <<"w","w","w",".">>)

\* C13: normalize_word removes at most one trailing suffix of the list:
\* the result is the stripped token with nothing, or with exactly one
\* listed suffix, removed from its end.
C13_AtMostOneSuffixRemoved ==
    word_pc = "returned" =>
        \/ word_out = StrippedToken(token)
        \/ \E i \in DOMAIN DomainEndings :
            /\ EndsWith(StrippedToken(token), DomainEndings[i])
            /\ word_out \o DomainEndings[i] = StrippedToken(token)

(***************************************************************************)
(* Properties of the two loops.                                            *)
(***************************************************************************)
\* C12: no exception raised during a turn ends the speech loop or the
\* prompt loop of main, except an operator interrupt, which is caught and
\* answered with the exit message.  The speech loop is listening again after
\* a turn with any other exception, an interrupt leaves it exited; main is at
\* its prompt, or was left by an exit word.
C12_OnlyInterruptEndsLoop ==
    /\ stt_pc \in {"idle", "start", "start_error", "listening", "exited"}
    /\ (stt_pc = "exited" => stt_event.raised = "KeyboardInterrupt")
    /\ (stt_event.kind = "fault" /\ stt_event.raised # "KeyboardInterrupt")
            => stt_pc = "listening"
    /\ main_pc \in {"idle", "prompt", "exited"}

\* C14: in the speech loop no record of the file has the text of the
\* record appended just before it, and the remembered last-written text is
\* the text of the last write (none before the first): a turn that writes
\* nothing leaves it as it was.
C14_NoConsecutiveDuplicate ==
    /\ \A i \in DOMAIN output_file :
        i > 1 => output_file[i] # output_file[i - 1]
    /\ (appends # <<>> => last_written = Some(appends[Len(appends)]))
    /\ (appends = <<>> => last_written = None)

====
